---- MODULE Spec2Model ----
(***************************************************************************)
(* Event Outfitter backend: the three HTTP handlers (generate, swap-style, *)
(* styles) of handler/handlers.go over the session cache of                *)
(* server/server.go and the Gemini client of gemini/gemini.go.             *)
(*                                                                         *)
(* Every HTTP request runs on its own goroutine.  A request slot r is one  *)
(* such goroutine; pc[r] is its position in the handler.  The steps of a   *)
(* handler between two points where other goroutines can observe it (the   *)
(* mutex operations, the map accesses, the blocking calls to Gemini) are   *)
(* one action each.                                                        *)
(***************************************************************************)
EXTENDS Integers, Sequences, FiniteSets, TLC

\* Number of HTTP requests the server handles at the same time.
MaxReq == 2
\* Number of session identifiers drawn in one run.
MaxSessions == 2
\* Longest style list the Gemini text model answers with.
MaxStyles == 2

Requests == 1..MaxReq

-----------------------------------------------------------------------------
(* Strings that are compared with "" in the code are modelled as tuples:   *)
(* the empty string is <<>>.                                               *)

EmptyString == <<>>

\* A generator that repeats itself: every draw gives the same identifier.
uuidNewRepeats(n) == <<"uuid", 1>>

\* uuid.New().String(): the n-th identifier drawn by this process.  Version 4
\* UUIDs are 122 random bits; two draws are taken to differ.
uuidNew(n) == <<"uuid", n + 1>>

\* What a client can put in the X-Session-ID request header: nothing, a
\* string no generate call produces, or any identifier of the process
\* (whether or not it has been created or returned yet).
SessionHeaders == {EmptyString, <<"bogus">>} \cup {uuidNew(n) : n \in 0..(MaxSessions - 1)}

-----------------------------------------------------------------------------
(* models/models.go and encoding/json                                      *)

\* A member of a JSON object as the decoder sees it.
Absent == [tag |-> "absent", str |-> "", num |-> 0]
Str(s) == [tag |-> "string", str |-> s, num |-> 0]
Num(n) == [tag |-> "number", str |-> "", num |-> n]

\* A JSON text: not a JSON object at all, or an object with the members the
\* two request types look at (other members are ignored by the decoder).
Malformed ==
    [wellFormed |-> FALSE, eventType |-> Absent, venue |-> Absent,
     theme |-> Absent, styleIndex |-> Absent]
Object(e, v, t, i) ==
    [wellFormed |-> TRUE, eventType |-> e, venue |-> v, theme |-> t, styleIndex |-> i]

\* models.GenerateRequest
GenerateRequest(e, v, t) == [EventType |-> e, Venue |-> v, Theme |-> t]
ZeroGenerateRequest == GenerateRequest("", "", "")

\* json.Unmarshal([]byte(jsonData), &reqData): a syntax error or a member of
\* the wrong JSON type is an error; an absent member leaves the zero value.
UnmarshalGenerateRequest(doc) ==
    IF ~doc.wellFormed
       \/ doc.eventType.tag = "number"
       \/ doc.venue.tag = "number"
       \/ doc.theme.tag = "number"
    THEN [err |-> TRUE, val |-> ZeroGenerateRequest]
    ELSE [err |-> FALSE,
          val |-> GenerateRequest(doc.eventType.str, doc.venue.str, doc.theme.str)]

\* json.NewDecoder(r.Body).Decode(&swapReq) into models.SwapStyleRequest.
DecodeSwapStyleRequest(doc) ==
    IF ~doc.wellFormed \/ doc.styleIndex.tag = "string"
    THEN [err |-> TRUE, StyleIndex |-> 0]
    ELSE [err |-> FALSE, StyleIndex |-> doc.styleIndex.num]

\* json.NewEncoder(w).Encode(sessionData.Styles): the token stream of a JSON
\* array of strings.
Tok(t, s) == [t |-> t, s |-> s]
RECURSIVE EncodeElements(_)
EncodeElements(styles) ==
    IF Len(styles) = 0 THEN <<>>
    ELSE IF Len(styles) = 1 THEN <<Tok("string", styles[1])>>
    ELSE <<Tok("string", styles[1]), Tok("comma", "")>> \o EncodeElements(Tail(styles))
JSONEncodeStrings(styles) ==
    <<Tok("lbracket", "")>> \o EncodeElements(styles) \o <<Tok("rbracket", "")>>

\* What a client reads back from such a body.
RECURSIVE JSONDecodeStrings(_)
JSONDecodeStrings(toks) ==
    IF Len(toks) = 0 THEN <<>>
    ELSE IF toks[1].t = "string" THEN <<toks[1].s>> \o JSONDecodeStrings(Tail(toks))
    ELSE JSONDecodeStrings(Tail(toks))

-----------------------------------------------------------------------------
(* Request inputs                                                          *)

\* The multipart "image" part: the extension of its file name and its bytes.
NoUpload == [present |-> FALSE, readable |-> FALSE, ext |-> "", data |-> ""]
Upload(ext, data) == [present |-> TRUE, readable |-> TRUE, ext |-> ext, data |-> data]
Unreadable == [present |-> TRUE, readable |-> FALSE, ext |-> ".jpg", data |-> ""]

\* mime.TypeByExtension: Go's built-in table.
TypeByExtension(ext) ==
    CASE ext = ".jpg" -> "image/jpeg"
      [] ext = ".jpeg" -> "image/jpeg"
      [] ext = ".png" -> "image/png"
      [] ext = ".webp" -> "image/webp"
      [] OTHER -> ""

\* http.DetectContentType on the bytes of the model's uploads.
DetectContentType(data) ==
    CASE data = "pngbytes" -> "image/png"
      [] data = "jpegbytes" -> "image/jpeg"
      [] OTHER -> "application/octet-stream"

\* The three-stage MIME type determination of GenerateHandler.
ImageMimeType(ext, data) ==
    LET byExt == TypeByExtension(ext)
        sniffed == IF byExt = "" THEN DetectContentType(data) ELSE byExt
    IN  IF sniffed = "application/octet-stream"
        THEN CASE ext \in {".jpg", ".jpeg"} -> "image/jpeg"
               [] ext = ".png" -> "image/png"
               [] ext = ".webp" -> "image/webp"
               [] OTHER -> sniffed
        ELSE sniffed

FullDoc == Object(Str("Wedding"), Str("Goa"), Str("South"), Absent)

Photo == Upload(".jpg", "jpegbytes")

\* A generate request as it arrives: whether the multipart form parses within
\* maxUploadSize, the "data" form value and the "image" part.  One request
\* for each way of being refused, and the requests that pass, with and
\* without all three members of the data object.
GenerateInputs ==
    { [formOK |-> FALSE, data |-> FullDoc, image |-> Photo],
      [formOK |-> TRUE, data |-> Malformed, image |-> Photo],
      [formOK |-> TRUE, data |-> Object(Num(1), Str("Goa"), Str("South"), Absent),
       image |-> Photo],
      [formOK |-> TRUE, data |-> FullDoc, image |-> NoUpload],
      [formOK |-> TRUE, data |-> FullDoc, image |-> Unreadable],
      [formOK |-> TRUE, data |-> FullDoc, image |-> Photo],
      [formOK |-> TRUE, data |-> Object(Str("Wedding"), Str("Goa"), Absent, Absent),
       image |-> Upload("", "pngbytes")] }

SwapDocs ==
    { Malformed,
      Object(Absent, Absent, Absent, Absent),
      Object(Absent, Absent, Absent, Str("two")) }
    \cup { Object(Absent, Absent, Absent, Num(i)) : i \in (0 - 1)..MaxStyles }

-----------------------------------------------------------------------------
(* gemini/gemini.go.  The Gemini service is an external collaborator: what *)
(* it answers is an input of the model, what the client functions make of  *)
(* the answer is computed as the code computes it.                         *)

\* Style descriptions the text model writes.
Descriptions == <<"saree", "lehenga", "sherwani", "kurta">>

\* The first n descriptions, in order.
Prefix(n) == [i \in 1..n |-> Descriptions[i]]

\* The []string values the text model answers with: lists of distinct
\* descriptions of length 0..MaxStyles.
StyleLists == {Prefix(n) : n \in 0..MaxStyles}

\* Answers of the text model to GetStyleSuggestions' GenerateContent call.
StyleAnswers ==
    { [kind |-> k, styles |-> <<>>] :
        k \in {"client_error", "transport_error", "no_candidates", "no_text",
               "no_brackets", "bad_json"} }
    \cup { [kind |-> "array", styles |-> l] : l \in StyleLists }

\* GetStyleSuggestions(ctx, logger, eventType, venue, theme), given whether an
\* API key is in the environment and the answer of the service.
GetStyleSuggestions(keySet, answer) ==
    IF ~keySet THEN [err |-> TRUE, styles |-> <<>>]
    ELSE IF answer.kind = "client_error" THEN [err |-> TRUE, styles |-> <<>>]
    ELSE IF answer.kind = "transport_error" THEN [err |-> TRUE, styles |-> <<>>]
    ELSE IF answer.kind = "no_candidates" THEN [err |-> TRUE, styles |-> <<>>]
    ELSE IF answer.kind = "no_text" THEN [err |-> TRUE, styles |-> <<>>]
    ELSE IF answer.kind = "no_brackets" THEN [err |-> TRUE, styles |-> <<>>]
    ELSE IF answer.kind = "bad_json" THEN [err |-> TRUE, styles |-> <<>>]
    ELSE [err |-> FALSE, styles |-> answer.styles]

GeneratedImages == {"gen1", "gen2"}

\* Answers of the image model to GenerateImage's GenerateContent call.
ImageAnswers ==
    { [kind |-> k, data |-> "", mime |-> ""] :
        k \in {"client_error", "transport_error", "no_image"} }
    \cup { [kind |-> "image", data |-> g, mime |-> "image/png"] : g \in GeneratedImages }

\* GenerateImage(ctx, logger, imgData, mimeType, eventType, venue, theme,
\* styleDescription), given the environment and the answer of the service.
GenerateImage(keySet, answer) ==
    IF ~keySet THEN [err |-> TRUE, data |-> "", mime |-> ""]
    ELSE IF answer.kind = "client_error" THEN [err |-> TRUE, data |-> "", mime |-> ""]
    ELSE IF answer.kind = "transport_error" THEN [err |-> TRUE, data |-> "", mime |-> ""]
    ELSE IF answer.kind = "no_image" THEN [err |-> TRUE, data |-> "", mime |-> ""]
    ELSE [err |-> FALSE, data |-> answer.data, mime |-> answer.mime]

\* One call to the Gemini client: the arguments the client function receives
\* and, once it has returned, what it returned.
StylesCall(reqData) ==
    [op |-> "GetStyleSuggestions", imgData |-> "", mimeType |-> "",
     eventType |-> reqData.EventType, venue |-> reqData.Venue, theme |-> reqData.Theme,
     styleDescription |-> "",
     returned |-> FALSE, err |-> FALSE, styles |-> <<>>, data |-> "", mime |-> ""]
ImageCall(imgData, mimeType, reqData, style) ==
    [op |-> "GenerateImage", imgData |-> imgData, mimeType |-> mimeType,
     eventType |-> reqData.EventType, venue |-> reqData.Venue, theme |-> reqData.Theme,
     styleDescription |-> style,
     returned |-> FALSE, err |-> FALSE, styles |-> <<>>, data |-> "", mime |-> ""]
StylesReturned(call, res) ==
    [call EXCEPT !.returned = TRUE, !.err = res.err, !.styles = res.styles]
ImageReturned(call, res) ==
    [call EXCEPT !.returned = TRUE, !.err = res.err, !.data = res.data, !.mime = res.mime]

-----------------------------------------------------------------------------
(* server/server.go                                                        *)

\* server.SessionData
SessionData(styles, imgData, mimeType, reqData) ==
    [Styles |-> styles, ImageData |-> imgData, MimeType |-> mimeType, RequestData |-> reqData]
ZeroSessionData == SessionData(<<>>, "", "", ZeroGenerateRequest)

\* A lookup whose found flag is always true (the flag ignored).
CacheGetFoundIgnored(cache, id) ==
    IF id \in DOMAIN cache
    THEN [found |-> TRUE, data |-> cache[id]]
    ELSE [found |-> TRUE, data |-> ZeroSessionData]

\* sessionData, found := s.SessionCache[sessionID]
CacheGet(cache, id) ==
    IF id \in DOMAIN cache
    THEN [found |-> TRUE, data |-> cache[id]]
    ELSE [found |-> FALSE, data |-> ZeroSessionData]

\* s.SessionCache[sessionID] = sessionData
CachePut(cache, id, data) ==
    [k \in DOMAIN cache \cup {id} |-> IF k = id THEN data ELSE cache[k]]

-----------------------------------------------------------------------------
(* State                                                                   *)

VARIABLES
    SessionCache,   \* Server.SessionCache: session identifier -> SessionData
    CacheMutex,     \* Server.CacheMutex: 0 when unlocked, else the request holding it
    apiKeySet,      \* whether GOOGLE_API_KEY or GEMINI_API_KEY is in the environment
    uuids,          \* number of identifiers uuid.New() has produced
    pc,             \* pc[r]: where request r is in its handler
    request,        \* request[r]: the HTTP request as received
    locals,         \* locals[r]: the handler's local variables
    response,       \* response[r]: what was written to the ResponseWriter
    aiCalls,        \* aiCalls[r]: the calls r made to the Gemini client, in order
    delivered       \* the identifiers callers received in X-Session-ID, each with
                    \* the SessionData of the generate call that returned it

vars ==
    <<SessionCache, CacheMutex, apiKeySet, uuids, pc, request, locals, response,
      aiCalls, delivered>>

\* held: whether the X-Session-ID of the request is one a caller had received
\* when the request arrived.
NoRequest ==
    [kind |-> "none", sessionID |-> EmptyString, held |-> FALSE, body |-> Malformed,
     formOK |-> FALSE, image |-> NoUpload]

ZeroLocals ==
    [reqData |-> ZeroGenerateRequest, imgData |-> "", mimeType |-> "",
     sessionID |-> EmptyString, sessionData |-> ZeroSessionData, found |-> FALSE,
     StyleIndex |-> 0]

\* Nothing written yet.
NoResponse ==
    [status |-> 0, contentType |-> "", sessionID |-> EmptyString,
     message |-> "", image |-> "", json |-> <<>>]

\* http.Error(w, message, status)
HttpError(status, message) ==
    [status |-> status, contentType |-> "text/plain; charset=utf-8",
     sessionID |-> EmptyString, message |-> message, image |-> "", json |-> <<>>]

\* A handler that panics writes nothing: net/http recovers the panic and
\* closes the connection.
Aborted ==
    [status |-> 0, contentType |-> "", sessionID |-> EmptyString,
     message |-> "panic", image |-> "", json |-> <<>>]

\* s[i] of Go, indexed from 0: the element, or a run-time panic when i is out
\* of range.
Index(s, i) ==
    IF i + 1 \in DOMAIN s
    THEN [panic |-> FALSE, val |-> s[i + 1]]
    ELSE [panic |-> TRUE, val |-> ""]

\* The 200 response of generate and swap-style: the image, its Content-Type
\* and, for generate, the X-Session-ID header.
ImageResponse(data, mime, sessionID) ==
    [status |-> 200, contentType |-> mime, sessionID |-> sessionID,
     message |-> "", image |-> data, json |-> <<>>]

\* A styles response that leaves out the last style.
StylesResponseShort(styles) ==
    [status |-> 200, contentType |-> "application/json", sessionID |-> EmptyString,
     message |-> "", image |-> "",
     json |-> JSONEncodeStrings(SubSeq(styles, 1, Len(styles) - 1))]

\* The 200 response of styles.
StylesResponse(styles) ==
    [status |-> 200, contentType |-> "application/json", sessionID |-> EmptyString,
     message |-> "", image |-> "", json |-> JSONEncodeStrings(styles)]

\* NewServer and an idle http.Server: an empty cache, an unlocked mutex.  The
\* environment either holds an API key or not; main does not look.
Init ==
    /\ SessionCache = <<>>
    /\ CacheMutex = 0
    /\ apiKeySet \in BOOLEAN
    /\ uuids = 0
    /\ pc = [r \in Requests |-> "idle"]
    /\ request = [r \in Requests |-> NoRequest]
    /\ locals = [r \in Requests |-> ZeroLocals]
    /\ response = [r \in Requests |-> NoResponse]
    /\ aiCalls = [r \in Requests |-> <<>>]
    /\ delivered = <<>>

\* net/http starts a goroutine for a request that arrives; the free slot with
\* the lowest number stands for it.
Arrives(r) ==
    /\ pc[r] = "idle"
    /\ \A q \in Requests : q < r => pc[q] # "idle"

\* Generate requests that have not drawn their identifier yet.
GeneratesBeforeDraw == {q \in Requests : pc[q] = "generate_styles"}

\* The handler returns after writing resp.
Finish(r, resp) ==
    /\ pc' = [pc EXCEPT ![r] = "done"]
    /\ response' = [response EXCEPT ![r] = resp]

\* The last call of r to the Gemini client returns res.
LastCallReturns(r, returnedCall) ==
    aiCalls' = [aiCalls EXCEPT ![r] =
                   [@ EXCEPT ![Len(@)] = returnedCall]]

-----------------------------------------------------------------------------
(* GenerateHandler, POST /api/v1/generate.  The mux pattern carries the     *)
(* method, so the handler's own method check never fires.                  *)

\* Lines 25-95: parse the form, the JSON data and the image, determine the
\* MIME type, and call GetStyleSuggestions.
GenerateStart(r) ==
    /\ Arrives(r)
    /\ uuids + Cardinality(GeneratesBeforeDraw) < MaxSessions
    /\ \E in \in GenerateInputs :
        LET parsed == UnmarshalGenerateRequest(in.data)
            mimeType == ImageMimeType(in.image.ext, in.image.data)
        IN  /\ request' = [request EXCEPT ![r] =
                  [kind |-> "generate", sessionID |-> EmptyString, held |-> FALSE,
                   body |-> in.data,
                   formOK |-> in.formOK, image |-> in.image]]
            /\ IF ~in.formOK
               THEN /\ Finish(r, HttpError(400, "The uploaded file is too big."))
                    /\ UNCHANGED <<locals, aiCalls>>
               ELSE IF parsed.err
               THEN /\ Finish(r, HttpError(400, "Invalid JSON data provided."))
                    /\ UNCHANGED <<locals, aiCalls>>
               ELSE IF ~in.image.present
               THEN /\ Finish(r, HttpError(400, "Invalid image file provided."))
                    /\ locals' = [locals EXCEPT ![r].reqData = parsed.val]
                    /\ UNCHANGED aiCalls
               ELSE IF ~in.image.readable
               THEN /\ Finish(r, HttpError(500, "Could not read image data."))
                    /\ locals' = [locals EXCEPT ![r].reqData = parsed.val]
                    /\ UNCHANGED aiCalls
               ELSE /\ locals' = [locals EXCEPT ![r].reqData = parsed.val,
                                                ![r].imgData = in.image.data,
                                                ![r].mimeType = mimeType]
                    /\ aiCalls' = [aiCalls EXCEPT ![r] = Append(@, StylesCall(parsed.val))]
                    /\ pc' = [pc EXCEPT ![r] = "generate_styles"]
                    /\ UNCHANGED response
    /\ UNCHANGED <<SessionCache, CacheMutex, apiKeySet, uuids, delivered>>

\* The empty-list test left out.
NoStylesUnchecked(styles) == FALSE

\* len(styles) == 0, the test of line 101.
NoStyles(styles) == Len(styles) = 0

\* Lines 95-125: GetStyleSuggestions returns; on a non-empty list draw the
\* session identifier and build the SessionData.  (The identifier is also
\* appended to session.log, a file nothing reads back.)
GenerateStylesReturn(r) ==
    /\ pc[r] = "generate_styles"
    /\ \E answer \in StyleAnswers :
        LET res == GetStyleSuggestions(apiKeySet, answer) IN
        /\ LastCallReturns(r, StylesReturned(aiCalls[r][Len(aiCalls[r])], res))
        /\ IF res.err
           THEN /\ Finish(r, HttpError(500, "Failed to get style suggestions."))
                /\ UNCHANGED <<locals, uuids>>
           ELSE IF NoStyles(res.styles)
           THEN /\ Finish(r, HttpError(500, "No style suggestions could be generated."))
                /\ UNCHANGED <<locals, uuids>>
           ELSE /\ uuids' = uuids + 1
                /\ locals' = [locals EXCEPT
                      ![r].sessionID = uuidNew(uuids),
                      ![r].sessionData = SessionData(res.styles, locals[r].imgData,
                                                     locals[r].mimeType, locals[r].reqData)]
                /\ pc' = [pc EXCEPT ![r] = "generate_lock"]
                /\ UNCHANGED response
    /\ UNCHANGED <<SessionCache, CacheMutex, apiKeySet, request, delivered>>

\* Line 127: s.CacheMutex.Lock()
GenerateLock(r) ==
    /\ pc[r] = "generate_lock"
    /\ CacheMutex = 0
    /\ CacheMutex' = r
    /\ pc' = [pc EXCEPT ![r] = "generate_insert"]
    /\ UNCHANGED <<SessionCache, apiKeySet, uuids, request, locals, response, aiCalls,
                   delivered>>

\* The insert left out: the handler goes on without writing the map.
GenerateInsertSkipped(r) ==
    /\ pc[r] = "generate_insert"
    /\ pc' = [pc EXCEPT ![r] = "generate_unlock"]
    /\ UNCHANGED <<SessionCache, CacheMutex, apiKeySet, uuids, request, locals, response,
                   aiCalls, delivered>>

\* Line 128: s.SessionCache[sessionID] = sessionData
GenerateInsert(r) ==
    /\ pc[r] = "generate_insert"
    /\ SessionCache' = CachePut(SessionCache, locals[r].sessionID, locals[r].sessionData)
    /\ pc' = [pc EXCEPT ![r] = "generate_unlock"]
    /\ UNCHANGED <<CacheMutex, apiKeySet, uuids, request, locals, response, aiCalls,
                   delivered>>

\* The call of GenerateImage made with the last style of the list.
GenerateUnlockLastStyle(r) ==
    /\ pc[r] = "generate_unlock"
    /\ CacheMutex' = 0
    /\ LET last == Index(locals[r].sessionData.Styles,
                         Len(locals[r].sessionData.Styles) - 1) IN
       IF last.panic
       THEN /\ Finish(r, Aborted)
            /\ UNCHANGED aiCalls
       ELSE /\ aiCalls' = [aiCalls EXCEPT ![r] =
                  Append(@, ImageCall(locals[r].sessionData.ImageData,
                                      locals[r].sessionData.MimeType,
                                      locals[r].sessionData.RequestData,
                                      last.val))]
            /\ pc' = [pc EXCEPT ![r] = "generate_image"]
            /\ UNCHANGED response
    /\ UNCHANGED <<SessionCache, apiKeySet, uuids, request, locals, delivered>>

\* The call of GenerateImage made before the Unlock, with the mutex held.
GenerateCallsLocked(r) ==
    /\ pc[r] = "generate_unlock"
    /\ LET first == Index(locals[r].sessionData.Styles, 0) IN
       IF first.panic
       THEN /\ Finish(r, Aborted)
            /\ UNCHANGED aiCalls
       ELSE /\ aiCalls' = [aiCalls EXCEPT ![r] =
                  Append(@, ImageCall(locals[r].sessionData.ImageData,
                                      locals[r].sessionData.MimeType,
                                      locals[r].sessionData.RequestData,
                                      first.val))]
            /\ pc' = [pc EXCEPT ![r] = "generate_image"]
            /\ UNCHANGED response
    /\ UNCHANGED <<SessionCache, CacheMutex, apiKeySet, uuids, request, locals, delivered>>

\* Lines 129-132: s.CacheMutex.Unlock(), then call GenerateImage with the
\* first style, sessionData.Styles[0].
GenerateUnlock(r) ==
    /\ pc[r] = "generate_unlock"
    /\ CacheMutex' = 0
    /\ LET first == Index(locals[r].sessionData.Styles, 0) IN
       IF first.panic
       THEN /\ Finish(r, Aborted)
            /\ UNCHANGED aiCalls
       ELSE /\ aiCalls' = [aiCalls EXCEPT ![r] =
                  Append(@, ImageCall(locals[r].sessionData.ImageData,
                                      locals[r].sessionData.MimeType,
                                      locals[r].sessionData.RequestData,
                                      first.val))]
            /\ pc' = [pc EXCEPT ![r] = "generate_image"]
            /\ UNCHANGED response
    /\ UNCHANGED <<SessionCache, apiKeySet, uuids, request, locals, delivered>>

\* Lines 132-143: GenerateImage returns; write the error or the image with
\* the X-Session-ID header, which the caller then holds.
GenerateImageReturn(r) ==
    /\ pc[r] = "generate_image"
    /\ \E answer \in ImageAnswers :
        LET res == GenerateImage(apiKeySet, answer) IN
        /\ LastCallReturns(r, ImageReturned(aiCalls[r][Len(aiCalls[r])], res))
        /\ IF res.err
           THEN /\ Finish(r, HttpError(500, "Failed to generate initial image."))
                /\ UNCHANGED delivered
           ELSE /\ Finish(r, ImageResponse(res.data, res.mime, locals[r].sessionID))
                /\ delivered' = CachePut(delivered, locals[r].sessionID,
                                         locals[r].sessionData)
    /\ UNCHANGED <<SessionCache, CacheMutex, apiKeySet, uuids, request, locals>>

-----------------------------------------------------------------------------
(* SwapStyleHandler, POST /api/v1/swap-style                               *)

\* The range test with > for >=.
StyleIndexInRangeOffByOne(styleIndex, styles) ==
    ~(styleIndex < 0 \/ styleIndex > Len(styles))

\* 0 <= styleIndex < len(styles), the negation of the test of line 181.
StyleIndexInRange(styleIndex, styles) ==
    ~(styleIndex < 0 \/ styleIndex >= Len(styles))

\* The first style whatever the index.
StyleAtFirst(styles, styleIndex) == Index(styles, 0)

\* sessionData.Styles[swapReq.StyleIndex]
StyleAt(styles, styleIndex) == Index(styles, styleIndex)

\* Lines 155-167: read the header, decode the body.
SwapStyleStart(r) ==
    /\ Arrives(r)
    /\ \E sessionID \in SessionHeaders, doc \in SwapDocs :
        LET swapReq == DecodeSwapStyleRequest(doc) IN
        /\ request' = [request EXCEPT ![r] =
              [kind |-> "swap", sessionID |-> sessionID,
               held |-> sessionID \in DOMAIN delivered, body |-> doc,
               formOK |-> FALSE, image |-> NoUpload]]
        /\ IF sessionID = EmptyString
           THEN /\ Finish(r, HttpError(400, "Missing X-Session-ID header."))
                /\ UNCHANGED locals
           ELSE IF swapReq.err
           THEN /\ Finish(r, HttpError(400, "Invalid request body."))
                /\ locals' = [locals EXCEPT ![r].sessionID = sessionID]
           ELSE /\ locals' = [locals EXCEPT ![r].sessionID = sessionID,
                                            ![r].StyleIndex = swapReq.StyleIndex]
                /\ pc' = [pc EXCEPT ![r] = "swap_lock"]
                /\ UNCHANGED response
    /\ UNCHANGED <<SessionCache, CacheMutex, apiKeySet, uuids, aiCalls, delivered>>

\* Line 169: s.CacheMutex.Lock()
SwapStyleLock(r) ==
    /\ pc[r] = "swap_lock"
    /\ CacheMutex = 0
    /\ CacheMutex' = r
    /\ pc' = [pc EXCEPT ![r] = "swap_read"]
    /\ UNCHANGED <<SessionCache, apiKeySet, uuids, request, locals, response, aiCalls,
                   delivered>>

\* A read that takes the record out of the cache.
SwapStyleReadTakes(r) ==
    /\ pc[r] = "swap_read"
    /\ LET got == CacheGet(SessionCache, locals[r].sessionID) IN
       locals' = [locals EXCEPT ![r].sessionData = got.data, ![r].found = got.found]
    /\ SessionCache' = [k \in DOMAIN SessionCache \ {locals[r].sessionID} |-> SessionCache[k]]
    /\ pc' = [pc EXCEPT ![r] = "swap_unlock"]
    /\ UNCHANGED <<CacheMutex, apiKeySet, uuids, request, response, aiCalls, delivered>>

\* Line 170: sessionData, found := s.SessionCache[sessionID]
SwapStyleRead(r) ==
    /\ pc[r] = "swap_read"
    /\ LET got == CacheGet(SessionCache, locals[r].sessionID) IN
       locals' = [locals EXCEPT ![r].sessionData = got.data, ![r].found = got.found]
    /\ pc' = [pc EXCEPT ![r] = "swap_unlock"]
    /\ UNCHANGED <<SessionCache, CacheMutex, apiKeySet, uuids, request, response, aiCalls,
                   delivered>>

\* Lines 171-197: s.CacheMutex.Unlock(), the found and index checks, and the
\* call of GenerateImage with the selected style.
SwapStyleUnlock(r) ==
    /\ pc[r] = "swap_unlock"
    /\ CacheMutex' = 0
    /\ IF ~locals[r].found
       THEN /\ Finish(r, HttpError(404, "Session expired or invalid."))
            /\ UNCHANGED aiCalls
       ELSE IF ~StyleIndexInRange(locals[r].StyleIndex, locals[r].sessionData.Styles)
       THEN /\ Finish(r, HttpError(400, "Invalid style index."))
            /\ UNCHANGED aiCalls
       ELSE LET style == StyleAt(locals[r].sessionData.Styles, locals[r].StyleIndex) IN
            IF style.panic
            THEN /\ Finish(r, Aborted)
                 /\ UNCHANGED aiCalls
            ELSE /\ aiCalls' = [aiCalls EXCEPT ![r] =
                       Append(@, ImageCall(locals[r].sessionData.ImageData,
                                           locals[r].sessionData.MimeType,
                                           locals[r].sessionData.RequestData,
                                           style.val))]
                 /\ pc' = [pc EXCEPT ![r] = "swap_image"]
                 /\ UNCHANGED response
    /\ UNCHANGED <<SessionCache, apiKeySet, uuids, request, locals, delivered>>

\* Lines 188-207: GenerateImage returns; write the error or the image.
SwapStyleImageReturn(r) ==
    /\ pc[r] = "swap_image"
    /\ \E answer \in ImageAnswers :
        LET res == GenerateImage(apiKeySet, answer) IN
        /\ LastCallReturns(r, ImageReturned(aiCalls[r][Len(aiCalls[r])], res))
        /\ IF res.err
           THEN Finish(r, HttpError(500, "Failed to generate swapped image."))
           ELSE Finish(r, ImageResponse(res.data, res.mime, EmptyString))
    /\ UNCHANGED <<SessionCache, CacheMutex, apiKeySet, uuids, request, locals, delivered>>

-----------------------------------------------------------------------------
(* GetStylesHandler, GET /api/v1/styles                                    *)

\* Lines 219-224: read the header.
GetStylesStart(r) ==
    /\ Arrives(r)
    /\ \E sessionID \in SessionHeaders :
        /\ request' = [request EXCEPT ![r] =
              [kind |-> "styles", sessionID |-> sessionID,
               held |-> sessionID \in DOMAIN delivered, body |-> Malformed,
               formOK |-> FALSE, image |-> NoUpload]]
        /\ IF sessionID = EmptyString
           THEN /\ Finish(r, HttpError(400, "Missing X-Session-ID header."))
                /\ UNCHANGED locals
           ELSE /\ locals' = [locals EXCEPT ![r].sessionID = sessionID]
                /\ pc' = [pc EXCEPT ![r] = "styles_lock"]
                /\ UNCHANGED response
    /\ UNCHANGED <<SessionCache, CacheMutex, apiKeySet, uuids, aiCalls, delivered>>

\* A Lock that does not wait for the holder to unlock.
GetStylesLockNoWait(r) ==
    /\ pc[r] = "styles_lock"
    /\ CacheMutex' = r
    /\ pc' = [pc EXCEPT ![r] = "styles_read"]
    /\ UNCHANGED <<SessionCache, apiKeySet, uuids, request, locals, response, aiCalls,
                   delivered>>

\* Line 226: s.CacheMutex.Lock()
GetStylesLock(r) ==
    /\ pc[r] = "styles_lock"
    /\ CacheMutex = 0
    /\ CacheMutex' = r
    /\ pc' = [pc EXCEPT ![r] = "styles_read"]
    /\ UNCHANGED <<SessionCache, apiKeySet, uuids, request, locals, response, aiCalls,
                   delivered>>

\* A lookup that evicts the entry it has read.
GetStylesReadEvicts(r) ==
    /\ pc[r] = "styles_read"
    /\ LET got == CacheGet(SessionCache, locals[r].sessionID) IN
       locals' = [locals EXCEPT ![r].sessionData = got.data, ![r].found = got.found]
    /\ SessionCache' = [k \in DOMAIN SessionCache \ {locals[r].sessionID} |-> SessionCache[k]]
    /\ pc' = [pc EXCEPT ![r] = "styles_unlock"]
    /\ UNCHANGED <<CacheMutex, apiKeySet, uuids, request, response, aiCalls, delivered>>

\* Line 227: sessionData, found := s.SessionCache[sessionID]
GetStylesRead(r) ==
    /\ pc[r] = "styles_read"
    /\ LET got == CacheGet(SessionCache, locals[r].sessionID) IN
       locals' = [locals EXCEPT ![r].sessionData = got.data, ![r].found = got.found]
    /\ pc' = [pc EXCEPT ![r] = "styles_unlock"]
    /\ UNCHANGED <<SessionCache, CacheMutex, apiKeySet, uuids, request, response, aiCalls,
                   delivered>>

\* The 404 path returning without the Unlock.
GetStylesUnlockForgotten(r) ==
    /\ pc[r] = "styles_unlock"
    /\ IF ~locals[r].found
       THEN /\ Finish(r, HttpError(404, "Session expired or invalid."))
            /\ UNCHANGED CacheMutex
       ELSE /\ Finish(r, StylesResponse(locals[r].sessionData.Styles))
            /\ CacheMutex' = 0
    /\ UNCHANGED <<SessionCache, apiKeySet, uuids, request, locals, aiCalls, delivered>>

\* Lines 228-237: s.CacheMutex.Unlock(), then 404 or the JSON list of styles.
GetStylesUnlock(r) ==
    /\ pc[r] = "styles_unlock"
    /\ CacheMutex' = 0
    /\ IF ~locals[r].found
       THEN Finish(r, HttpError(404, "Session expired or invalid."))
       ELSE Finish(r, StylesResponse(locals[r].sessionData.Styles))
    /\ UNCHANGED <<SessionCache, apiKeySet, uuids, request, locals, aiCalls, delivered>>

-----------------------------------------------------------------------------

\* The handler has returned and the response is with the caller: the
\* goroutine ends, and with it the handler's variables.
Return(r) ==
    /\ pc[r] = "done"
    /\ pc' = [pc EXCEPT ![r] = "idle"]
    /\ request' = [request EXCEPT ![r] = NoRequest]
    /\ locals' = [locals EXCEPT ![r] = ZeroLocals]
    /\ response' = [response EXCEPT ![r] = NoResponse]
    /\ aiCalls' = [aiCalls EXCEPT ![r] = <<>>]
    /\ UNCHANGED <<SessionCache, CacheMutex, apiKeySet, uuids, delivered>>

Next ==
    \E r \in Requests :
        \/ GenerateStart(r)
        \/ GenerateStylesReturn(r)
        \/ GenerateLock(r)
        \/ GenerateInsert(r)
        \/ GenerateUnlock(r)
        \/ GenerateImageReturn(r)
        \/ SwapStyleStart(r)
        \/ SwapStyleLock(r)
        \/ SwapStyleRead(r)
        \/ SwapStyleUnlock(r)
        \/ SwapStyleImageReturn(r)
        \/ GetStylesStart(r)
        \/ GetStylesLock(r)
        \/ GetStylesRead(r)
        \/ GetStylesUnlock(r)
        \/ Return(r)

Spec == Init /\ [][Next]_vars

-----------------------------------------------------------------------------
(* Properties                                                              *)

Done(r) == pc[r] = "done"
IsGenerate(r) == request[r].kind = "generate"
IsSwap(r) == request[r].kind = "swap"
IsStyles(r) == request[r].kind = "styles"

\* r takes a step of its handler.
Steps(r) == pc'[r] # pc[r]

\* The positions where a handler waits for the Gemini client.
WaitingOnAI(r) == pc[r] \in {"generate_styles", "generate_image", "swap_image"}

\* The positions between Lock and Unlock.
InCriticalSection(r) ==
    pc[r] \in {"generate_insert", "generate_unlock", "swap_read", "swap_unlock",
               "styles_read", "styles_unlock"}

\* The event parameters a generate request carries in its data object.
ParamsOf(r) ==
    [EventType |-> request[r].body.eventType.str,
     Venue |-> request[r].body.venue.str,
     Theme |-> request[r].body.theme.str]

\* A swap-style request that found its session, and the styles it found.
SwapFound(r) ==
    /\ Done(r) /\ IsSwap(r) /\ locals[r].found
    /\ request[r].sessionID \in DOMAIN SessionCache
StoredStyles(r) == SessionCache[request[r].sessionID].Styles
IndexOf(r) == request[r].body.styleIndex.num

-----------------------------------------------------------------------------
\* The record under the identifier a generate call returns is the one that
\* call built from its request and the styles it was given.
C1_ReturnedRecordStored ==
    \A r \in Requests :
        Done(r) /\ IsGenerate(r) /\ response[r].status = 200 =>
            /\ response[r].sessionID # EmptyString
            /\ response[r].sessionID \in DOMAIN SessionCache
            /\ SessionCache[response[r].sessionID] =
                  [Styles |-> aiCalls[r][1].styles,
                   ImageData |-> request[r].image.data,
                   MimeType |-> locals[r].mimeType,
                   RequestData |-> ParamsOf(r)]
            /\ response[r].sessionID \in DOMAIN delivered
            /\ delivered[response[r].sessionID] = SessionCache[response[r].sessionID]
\* Every identifier a caller holds is in the store, with its record.
C1_DeliveredResolves ==
    \A id \in DOMAIN delivered :
        id \in DOMAIN SessionCache /\ SessionCache[id] = delivered[id]
\* No step removes or changes the record of an identifier a caller holds.
C1_RecordKept ==
    \A id \in DOMAIN delivered :
        id \in DOMAIN SessionCache' /\ SessionCache'[id] = SessionCache[id]
\* A map read for an identifier a caller holds finds the record, field for field.
C1_LookupReturnsRecord ==
    \A r \in Requests :
        /\ pc[r] \in {"swap_read", "styles_read"}
        /\ Steps(r)
        /\ locals[r].sessionID \in DOMAIN delivered
        => /\ locals'[r].found
           /\ locals'[r].sessionData = delivered[locals[r].sessionID]
\* C1: a session identifier returned in X-Session-ID resolves, on every later
\* lookup, to exactly the record (styles, image bytes, MIME type, event
\* parameters) stored by the generate call that returned it; the record is
\* never removed, replaced by another generate call or altered, and a read
\* returns field for field what was stored.
C1_SessionResolvesToItsRecord ==
    /\ [](C1_ReturnedRecordStored /\ C1_DeliveredResolves)
    /\ [][C1_RecordKept /\ C1_LookupReturnsRecord]_vars

\* Two sessions were returned and a later lookup of one of them has read it.
C1_Witness ==
    \E r \in Requests :
        /\ pc[r] \in {"swap_unlock", "styles_unlock"}
        /\ request[r].held
        /\ locals[r].found
        /\ Cardinality(DOMAIN delivered) = 2

-----------------------------------------------------------------------------
\* C2: when the AI client returns at least one style and an image to a
\* generate request, the request returns a session identifier, and list-styles
\* with that identifier yields exactly the style list the AI client returned,
\* same elements, same order.
C2_ListStylesReturnsGeneratedStyles ==
    /\ \A r \in Requests :
          /\ Done(r) /\ IsGenerate(r)
          /\ Len(aiCalls[r]) = 2
          /\ ~aiCalls[r][1].err /\ Len(aiCalls[r][1].styles) >= 1
          /\ ~aiCalls[r][2].err
          => /\ response[r].status = 200
             /\ response[r].sessionID \in DOMAIN delivered
             /\ delivered[response[r].sessionID].Styles = aiCalls[r][1].styles
    /\ \A r \in Requests :
          Done(r) /\ IsStyles(r) /\ request[r].held =>
             /\ response[r].status = 200
             /\ JSONDecodeStrings(response[r].json) = delivered[request[r].sessionID].Styles

\* list-styles answered with a list of two styles for a returned identifier.
C2_Witness ==
    \E r \in Requests :
        /\ Done(r) /\ IsStyles(r) /\ request[r].held
        /\ response[r].status = 200
        /\ Len(JSONDecodeStrings(response[r].json)) >= 2

-----------------------------------------------------------------------------
\* An out-of-range request ends with 400 and without an AI call.
C3_Rejected ==
    \A r \in Requests :
        SwapFound(r) /\ (IndexOf(r) < 0 \/ IndexOf(r) >= Len(StoredStyles(r))) =>
            /\ response[r].status = 400
            /\ aiCalls[r] = <<>>
\* No step of a swap-style request changes the store.
C3_StoreUntouched ==
    \A r \in Requests :
        request'[r].kind = "swap" /\ Steps(r) => SessionCache' = SessionCache
\* C3: for an existing session with L styles, swap-style with styleIndex < 0
\* or styleIndex >= L fails with 400, calls the AI client not at all, and
\* leaves the session store unchanged.
C3_OutOfRangeIndexRejected == []C3_Rejected /\ [][C3_StoreUntouched]_vars

\* One swap-style refused for a negative index, one for the index L.
C3_Witness ==
    \E r, q \in Requests :
        /\ SwapFound(r) /\ IndexOf(r) < 0 /\ response[r].status = 400
        /\ SwapFound(q) /\ IndexOf(q) = Len(StoredStyles(q)) /\ response[q].status = 400

-----------------------------------------------------------------------------
\* C4 (as claimed): for an existing session with L styles, swap-style with
\* styleIndex in [0, L) succeeds: it calls the AI client with the stored
\* inputs and the style at styleIndex and returns the image of that call.
C4_InRangeSwapSucceeds ==
    \A r \in Requests :
        SwapFound(r) /\ IndexOf(r) >= 0 /\ IndexOf(r) < Len(StoredStyles(r)) =>
            /\ Len(aiCalls[r]) = 1
            /\ aiCalls[r][1].styleDescription = StoredStyles(r)[IndexOf(r) + 1]
            /\ response[r].status = 200
            /\ response[r].image = aiCalls[r][1].data

\* C4 (amended): for an existing session with L styles, swap-style with
\* styleIndex in [0, L) passes validation and calls the AI client once, with
\* the stored photo, MIME type, event parameters and the style at styleIndex;
\* it answers 200 with the image bytes and MIME type of that call when the
\* call returns an image, and 500 when the call fails.
C4_InRangeSwapCallsAI ==
    \A r \in Requests :
        SwapFound(r) /\ IndexOf(r) >= 0 /\ IndexOf(r) < Len(StoredStyles(r)) =>
            LET rec == SessionCache[request[r].sessionID] IN
            /\ Len(aiCalls[r]) = 1
            /\ aiCalls[r][1].op = "GenerateImage"
            /\ aiCalls[r][1].imgData = rec.ImageData
            /\ aiCalls[r][1].mimeType = rec.MimeType
            /\ aiCalls[r][1].eventType = rec.RequestData.EventType
            /\ aiCalls[r][1].venue = rec.RequestData.Venue
            /\ aiCalls[r][1].theme = rec.RequestData.Theme
            /\ aiCalls[r][1].styleDescription = rec.Styles[IndexOf(r) + 1]
            /\ aiCalls[r][1].returned
            /\ IF aiCalls[r][1].err
               THEN response[r].status = 500
               ELSE /\ response[r].status = 200
                    /\ response[r].image = aiCalls[r][1].data
                    /\ response[r].contentType = aiCalls[r][1].mime

\* swap-style with index 1 on a session of two styles answered 200.
C4_Witness ==
    \E r \in Requests :
        /\ SwapFound(r) /\ IndexOf(r) = 1 /\ Len(StoredStyles(r)) = 2
        /\ response[r].status = 200

-----------------------------------------------------------------------------
\* A request with an X-Session-ID for which the store never held a record.
UnknownSession(r) ==
    /\ Done(r) /\ (IsSwap(r) \/ IsStyles(r))
    /\ request[r].sessionID # EmptyString
    /\ request[r].sessionID \notin DOMAIN SessionCache

\* The swap-style body decodes into a SwapStyleRequest.
BodyDecodes(r) ==
    request[r].body.wellFormed /\ request[r].body.styleIndex.tag # "string"

\* C5 (as claimed): list-styles or swap-style with a session identifier for
\* which no record was ever created fails with 404, whatever the rest of the
\* request contains, request body and styleIndex included.
C5_UnknownSessionIs404 ==
    \A r \in Requests : UnknownSession(r) => response[r].status = 404

\* C5 (amended): list-styles with a session identifier for which no record was
\* ever created fails with 404, and so does swap-style whatever its
\* styleIndex, provided its body decodes; a swap-style request whose body
\* does not decode fails with 400 before the session is looked up.
C5_UnknownSessionIs404IfBodyDecodes ==
    \A r \in Requests :
        UnknownSession(r) =>
            IF IsSwap(r) /\ ~BodyDecodes(r)
            THEN response[r].status = 400
            ELSE response[r].status = 404 /\ aiCalls[r] = <<>>

\* swap-style with an out-of-range index and list-styles, both on an unknown
\* session while another session exists, both answered 404.
C5_Witness ==
    \E r, q \in Requests :
        /\ UnknownSession(r) /\ IsSwap(r) /\ IndexOf(r) < 0 /\ response[r].status = 404
        /\ UnknownSession(q) /\ IsStyles(q) /\ response[q].status = 404
        /\ DOMAIN SessionCache # {}

-----------------------------------------------------------------------------
\* C6: every record in the store belongs to a generate call whose identifier
\* was returned to its caller: when the image-generation step fails after the
\* insert, no record of that request remains once the request has ended.
C6_NoOrphanRecord ==
    \A id \in DOMAIN SessionCache :
        \/ id \in DOMAIN delivered
        \/ \E r \in Requests :
              /\ IsGenerate(r)
              /\ pc[r] \in {"generate_unlock", "generate_image"}
              /\ locals[r].sessionID = id

-----------------------------------------------------------------------------
\* The style-suggestion call of generate request r returned an error or an
\* empty list.
StyleCallFailed(r) ==
    /\ IsGenerate(r)
    /\ Len(aiCalls[r]) >= 1
    /\ aiCalls[r][1].returned
    /\ (aiCalls[r][1].err \/ Len(aiCalls[r][1].styles) = 0)
\* Such a request has ended with 500, without an identifier and without a
\* second AI call.
C7_EndsWith500 ==
    \A r \in Requests :
        StyleCallFailed(r) =>
            /\ Done(r)
            /\ response[r].status = 500
            /\ response[r].sessionID = EmptyString
            /\ Len(aiCalls[r]) = 1
            /\ locals[r].sessionID = EmptyString
\* The step that ends it leaves the store as it was.
C7_NothingInserted ==
    \A r \in Requests :
        pc[r] = "generate_styles" /\ Steps(r) /\ pc'[r] = "done" =>
            SessionCache' = SessionCache
\* C7: when the style-suggestion call of a generate request returns an error
\* or an empty list, the request ends with 500, no record is inserted, no
\* image-generation call is made and no X-Session-ID is returned.
C7_NoStylesNoSession ==
    /\ []C7_EndsWith500
    /\ [][C7_NothingInserted]_vars

\* One generate request ended on an empty style list, one on a failed call.
C7_Witness ==
    \E r, q \in Requests :
        /\ StyleCallFailed(r) /\ ~aiCalls[r][1].err /\ response[r].status = 500
        /\ StyleCallFailed(q) /\ aiCalls[q][1].err /\ response[q].status = 500

-----------------------------------------------------------------------------
\* A generate request whose data object lacks a member, or a swap-style
\* request whose body lacks styleIndex.
LacksField(r) ==
    \/ /\ IsGenerate(r)
       /\ request[r].formOK
       /\ request[r].body.wellFormed
       /\ \/ request[r].body.eventType.tag = "absent"
          \/ request[r].body.venue.tag = "absent"
          \/ request[r].body.theme.tag = "absent"
    \/ /\ IsSwap(r)
       /\ request[r].sessionID # EmptyString
       /\ request[r].body.wellFormed
       /\ request[r].body.styleIndex.tag = "absent"
\* C8: a generate request whose data object lacks eventType, venue or theme,
\* and a swap-style request whose body lacks styleIndex, are refused with a
\* 4xx status, without an AI call and without a session record built or read.
C8_MissingFieldRefused ==
    \A r \in Requests :
        Done(r) /\ LacksField(r) =>
            /\ response[r].status >= 400
            /\ response[r].status < 500
            /\ aiCalls[r] = <<>>
            /\ locals[r].sessionData = ZeroSessionData

-----------------------------------------------------------------------------
\* Two swap-style requests on the same existing session with different
\* in-range indices, both ended.
TwoSwaps(r, q) ==
    /\ r # q
    /\ SwapFound(r) /\ SwapFound(q)
    /\ request[r].sessionID = request[q].sessionID
    /\ IndexOf(r) # IndexOf(q)
    /\ IndexOf(r) >= 0 /\ IndexOf(r) < Len(StoredStyles(r))
    /\ IndexOf(q) >= 0 /\ IndexOf(q) < Len(StoredStyles(q))

\* C9 (as claimed): two concurrent swap-style requests on the same session
\* with different in-range indices both succeed, each with the image
\* generated for its own index, and the stored record is unchanged.
C9_BothSwapsSucceed ==
    \A r, q \in Requests :
        TwoSwaps(r, q) =>
            /\ response[r].status = 200
            /\ response[q].status = 200
            /\ response[r].image = aiCalls[r][1].data
            /\ response[q].image = aiCalls[q][1].data
            /\ aiCalls[r][1].styleDescription = StoredStyles(r)[IndexOf(r) + 1]
            /\ aiCalls[q][1].styleDescription = StoredStyles(q)[IndexOf(q) + 1]
            /\ locals[r].sessionData = SessionCache[request[r].sessionID]

\* Each of the two read the stored record, called the AI client for the style
\* at its own index, and answered with the outcome of its own call.
C9_EachSwapOnItsOwn ==
    \A r, q \in Requests :
        TwoSwaps(r, q) =>
            LET rec == SessionCache[request[r].sessionID] IN
            /\ locals[r].sessionData = rec
            /\ locals[q].sessionData = rec
            /\ aiCalls[r][1].styleDescription = rec.Styles[IndexOf(r) + 1]
            /\ aiCalls[q][1].styleDescription = rec.Styles[IndexOf(q) + 1]
            /\ aiCalls[r][1].styleDescription # aiCalls[q][1].styleDescription
            /\ IF aiCalls[r][1].err THEN response[r].status = 500
               ELSE response[r].status = 200 /\ response[r].image = aiCalls[r][1].data
            /\ IF aiCalls[q][1].err THEN response[q].status = 500
               ELSE response[q].status = 200 /\ response[q].image = aiCalls[q][1].data
\* No step of a swap-style handler past its start changes the store.
C9_RecordUnchanged ==
    \A r \in Requests :
        pc[r] \in {"swap_lock", "swap_read", "swap_unlock", "swap_image"} /\ Steps(r) =>
            SessionCache' = SessionCache
\* C9 (amended): of two concurrent swap-style requests on the same session
\* with different in-range indices, each calls the AI client for the style at
\* its own index and, whatever the other does, succeeds with the image of its
\* own call when that call returns an image (and fails with 500 when it does
\* not); the stored record is unchanged, so list-styles still returns the
\* original list.
C9_ConcurrentSwapsIndependent ==
    /\ []C9_EachSwapOnItsOwn
    /\ [][C9_RecordUnchanged]_vars

\* Both requests answered 200, with different images.
C9_Witness ==
    \E r, q \in Requests :
        /\ TwoSwaps(r, q)
        /\ response[r].status = 200 /\ response[q].status = 200
        /\ response[r].image # response[q].image

-----------------------------------------------------------------------------
\* C10: the cache lock is held for a map access only, never across a call to
\* the AI client: no handler is both the lock holder and waiting on an AI
\* call, and whoever holds the lock is between its Lock and its Unlock.
C10_LockNotHeldAcrossAICall ==
    /\ \A r \in Requests : WaitingOnAI(r) => CacheMutex # r
    /\ CacheMutex # 0 => CacheMutex \in Requests /\ InCriticalSection(CacheMutex)
    /\ \A r \in Requests : InCriticalSection(r) => CacheMutex = r

\* One request waits for the image model while another holds the lock.
C10_Witness ==
    \E r, q \in Requests :
        /\ r # q
        /\ pc[r] = "generate_image"
        /\ CacheMutex = q

-----------------------------------------------------------------------------
\* The records generate builds: one for every request that passes the checks
\* of lines 25-89 and every non-empty list of styles, all four fields set.
WholeRecords ==
    { SessionData(l, in.image.data, ImageMimeType(in.image.ext, in.image.data),
                  UnmarshalGenerateRequest(in.data).val) :
        in \in {i \in GenerateInputs :
                   /\ i.formOK /\ ~UnmarshalGenerateRequest(i.data).err
                   /\ i.image.present /\ i.image.readable},
        l \in StyleLists \ {<<>>} }

\* At most one handler is between its Lock and its Unlock, it is the one the
\* mutex names, and what the map holds are whole records.
C11_OneHolder ==
    /\ Cardinality({r \in Requests : InCriticalSection(r)}) <= 1
    /\ \A r \in Requests : InCriticalSection(r) <=> CacheMutex = r
    /\ \A id \in DOMAIN SessionCache : SessionCache[id] \in WholeRecords
\* The map changes only in the insert step of the handler holding the lock,
\* by exactly the record of that handler, and an entry once written stays.
C11_WriteUnderLock ==
    /\ SessionCache' # SessionCache =>
          \E r \in Requests :
              /\ CacheMutex = r /\ CacheMutex' = r
              /\ pc[r] = "generate_insert" /\ Steps(r)
              /\ SessionCache' = CachePut(SessionCache, locals[r].sessionID,
                                          locals[r].sessionData)
    /\ \A id \in DOMAIN SessionCache :
          id \in DOMAIN SessionCache' /\ SessionCache'[id] = SessionCache[id]
\* A lookup is made by the handler holding the lock and returns what the map
\* holds at that moment: found with the whole record when an insert under the
\* identifier has completed, not found otherwise.
C11_ReadUnderLock ==
    \A r \in Requests :
        pc[r] \in {"swap_read", "styles_read"} /\ Steps(r) =>
            /\ CacheMutex = r /\ CacheMutex' = r
            /\ SessionCache' = SessionCache
            /\ locals'[r].found = (locals[r].sessionID \in DOMAIN SessionCache)
            /\ locals'[r].found =>
                  /\ locals'[r].sessionData = SessionCache[locals[r].sessionID]
                  /\ locals'[r].sessionData \in WholeRecords
            /\ ~locals'[r].found => locals'[r].sessionData = ZeroSessionData
\* C11: session store operations are linearizable: every read and write of
\* the session map is done while holding the single cache lock and at most one
\* handler holds it at a time, so a lookup that starts after an insert has
\* completed finds that record, and no lookup observes a partially written
\* record.
C11_StoreLinearizable ==
    /\ []C11_OneHolder
    /\ [][C11_WriteUnderLock /\ C11_ReadUnderLock]_vars

\* A lookup found a record no caller held yet when the lookup arrived, while
\* the generate call that inserted it still waits for its image.
C11_Witness ==
    \E r, q \in Requests :
        /\ pc[r] \in {"swap_unlock", "styles_unlock"}
        /\ locals[r].found /\ ~request[r].held
        /\ pc[q] = "generate_image"
        /\ locals[q].sessionID = locals[r].sessionID

-----------------------------------------------------------------------------
\* C12: a missing API credential is a startup error and not a per-request
\* one: with neither GOOGLE_API_KEY nor GEMINI_API_KEY in the environment the
\* service serves nothing, so no generate or swap-style request is accepted,
\* handed to the AI client and then failed for the absent credential.
C12_MissingKeyIsStartupError ==
    ~apiKeySet =>
        \A r \in Requests :
            (IsGenerate(r) \/ IsSwap(r)) =>
                /\ aiCalls[r] = <<>>
                /\ ~(Done(r) /\ response[r].status = 500)

-----------------------------------------------------------------------------
\* The number of styles the prompt of GetStyleSuggestions asks the text model
\* for, and the README promises per session.
StyleCount == 5

\* C13: every session created by generate holds exactly 5 style suggestions,
\* whatever the AI client returned: swap-style accepts each styleIndex from 0
\* through 4 on every existing session, and list-styles returns 5 entries.
C13_FiveStylesPerSession ==
    /\ \A id \in DOMAIN SessionCache : Len(SessionCache[id].Styles) = StyleCount
    /\ \A r \in Requests :
          SwapFound(r) /\ BodyDecodes(r) /\ IndexOf(r) \in 0..(StyleCount - 1) =>
              response[r].status # 400
    /\ \A r \in Requests :
          Done(r) /\ IsStyles(r) /\ response[r].status = 200 =>
              Len(JSONDecodeStrings(response[r].json)) = StyleCount

-----------------------------------------------------------------------------
\* No step of a list-styles or swap-style request, from its arrival to the end
\* of its handler, changes the map.
C14_LookupsLeaveStore ==
    \A r \in Requests :
        /\ Steps(r)
        /\ \/ request'[r].kind \in {"swap", "styles"}
           \/ request[r].kind \in {"swap", "styles"}
        => SessionCache' = SessionCache
\* A step that changes the map is the insert step of a generate request, and
\* it adds that request's record and nothing else.
C14_OnlyInsertWrites ==
    SessionCache' # SessionCache =>
        \E r \in Requests :
            /\ IsGenerate(r)
            /\ pc[r] = "generate_insert" /\ pc'[r] = "generate_unlock"
            /\ DOMAIN SessionCache' = DOMAIN SessionCache \cup {locals[r].sessionID}
            /\ \A id \in DOMAIN SessionCache \ {locals[r].sessionID} :
                  SessionCache'[id] = SessionCache[id]
\* C14: the session map is modified only by the insert step of generate: a
\* list-styles or swap-style request leaves the whole session store unchanged
\* in every outcome (success, missing header, bad body, unknown session,
\* out-of-range index, AI failure).
C14_StoreModifiedOnlyByInsert == [][C14_LookupsLeaveStore /\ C14_OnlyInsertWrites]_vars

\* With a session in the store, a swap-style request has ended on an AI
\* failure and a list-styles request has succeeded.
C14_Witness ==
    \E r, q \in Requests :
        /\ SwapFound(r) /\ response[r].status = 500 /\ Len(aiCalls[r]) = 1
        /\ Done(q) /\ IsStyles(q) /\ response[q].status = 200
        /\ DOMAIN SessionCache # {}

-----------------------------------------------------------------------------
\* C15: in a successful generate request the image returned to the caller is
\* the one the AI client produced for the uploaded photo, its MIME type, the
\* request's event parameters and the first element (index 0) of the style
\* list stored in the session record of that request.
C15_GenerateReturnsFirstStyleImage ==
    \A r \in Requests :
        Done(r) /\ IsGenerate(r) /\ response[r].status = 200 =>
            /\ Len(aiCalls[r]) = 2
            /\ response[r].sessionID \in DOMAIN SessionCache
            /\ LET rec == SessionCache[response[r].sessionID]
                   call == aiCalls[r][2]
               IN  /\ call.op = "GenerateImage"
                   /\ call.returned /\ ~call.err
                   /\ call.imgData = request[r].image.data
                   /\ call.mimeType =
                         ImageMimeType(request[r].image.ext, request[r].image.data)
                   /\ call.eventType = ParamsOf(r).EventType
                   /\ call.venue = ParamsOf(r).Venue
                   /\ call.theme = ParamsOf(r).Theme
                   /\ Len(rec.Styles) >= 1
                   /\ call.styleDescription = rec.Styles[1]
                   /\ rec.Styles = aiCalls[r][1].styles
                   /\ response[r].image = call.data
                   /\ response[r].contentType = call.mime

\* A generate request answered 200 for a session of two styles, its photo's
\* MIME type found by sniffing the bytes.
C15_Witness ==
    \E r \in Requests :
        /\ Done(r) /\ IsGenerate(r) /\ response[r].status = 200
        /\ Len(SessionCache[response[r].sessionID].Styles) = 2
        /\ request[r].image.ext = ""
        /\ aiCalls[r][2].mimeType = "image/png"

-----------------------------------------------------------------------------
\* Where a generate request stands tells which of its steps have happened:
\* the style request before the insert, the insert before the image request,
\* the image request before the response.
C16_StepsInOrder ==
    \A r \in Requests :
        IsGenerate(r) =>
            /\ pc[r] = "generate_styles" =>
                  /\ Len(aiCalls[r]) = 1 /\ aiCalls[r][1].op = "GetStyleSuggestions"
                  /\ ~aiCalls[r][1].returned
                  /\ locals[r].sessionID = EmptyString
                  /\ response[r] = NoResponse
            /\ pc[r] \in {"generate_lock", "generate_insert"} =>
                  /\ Len(aiCalls[r]) = 1 /\ aiCalls[r][1].returned
                  /\ locals[r].sessionID \notin DOMAIN SessionCache
                  /\ response[r] = NoResponse
            /\ pc[r] = "generate_unlock" =>
                  /\ Len(aiCalls[r]) = 1
                  /\ locals[r].sessionID \in DOMAIN SessionCache
                  /\ response[r] = NoResponse
            /\ pc[r] = "generate_image" =>
                  /\ Len(aiCalls[r]) = 2 /\ aiCalls[r][2].op = "GenerateImage"
                  /\ aiCalls[r][1].returned /\ ~aiCalls[r][2].returned
                  /\ locals[r].sessionID \in DOMAIN SessionCache
                  /\ response[r] = NoResponse
            /\ Done(r) =>
                  /\ response[r] # NoResponse
                  /\ \A i \in 1..Len(aiCalls[r]) : aiCalls[r][i].returned
                  /\ Len(aiCalls[r]) = 2 => locals[r].sessionID \in DOMAIN SessionCache
\* X-Session-ID is on 200 responses of generate only, and is the key of the
\* record of that request; every identifier a caller holds is in the store.
C16_IdentifierOnlyOn200 ==
    /\ \A r \in Requests :
          response[r].sessionID # EmptyString =>
              /\ IsGenerate(r) /\ response[r].status = 200
              /\ response[r].sessionID = locals[r].sessionID
              /\ response[r].sessionID \in DOMAIN SessionCache
              /\ SessionCache[response[r].sessionID] = locals[r].sessionData
    /\ \A r \in Requests :
          Done(r) /\ IsGenerate(r) /\ response[r].status = 200 =>
              response[r].sessionID # EmptyString
    /\ \A id \in DOMAIN delivered : id \in DOMAIN SessionCache
\* The handler moves from step to step in the one order, and writes the
\* identifier only when the record is already in the store.
C16_OrderKept ==
    \A r \in Requests :
        /\ IsGenerate(r) /\ Steps(r) =>
              <<pc[r], pc'[r]>> \in
                  { <<"generate_styles", "done">>, <<"generate_styles", "generate_lock">>,
                    <<"generate_lock", "generate_insert">>,
                    <<"generate_insert", "generate_unlock">>,
                    <<"generate_unlock", "generate_image">>,
                    <<"generate_image", "done">>, <<"done", "idle">> }
        /\ response'[r].sessionID # EmptyString /\ response[r].sessionID = EmptyString =>
              /\ response'[r].sessionID \in DOMAIN SessionCache
              /\ response'[r].sessionID = locals[r].sessionID
              /\ SessionCache[locals[r].sessionID] = locals[r].sessionData
\* C16: in every generate request the steps occur in the order style request,
\* store insert, image request, response; X-Session-ID is sent only on a 200
\* response and equals the key under which that request's record was inserted
\* before the response was written, so a caller never holds an identifier
\* that does not resolve and no error response discloses one.
C16_InsertBeforeResponse ==
    /\ [](C16_StepsInOrder /\ C16_IdentifierOnlyOn200)
    /\ [][C16_OrderKept]_vars

\* One generate request answered 200 with its identifier, another failed in
\* the image request, after its insert, and answered 500 without one.
C16_Witness ==
    \E r, q \in Requests :
        /\ Done(r) /\ IsGenerate(r) /\ response[r].status = 200
        /\ response[r].sessionID = locals[r].sessionID
        /\ Done(q) /\ IsGenerate(q) /\ response[q].status = 500
        /\ Len(aiCalls[q]) = 2
        /\ locals[q].sessionID \in DOMAIN SessionCache
        /\ response[q].sessionID = EmptyString

-----------------------------------------------------------------------------
\* C17: in every reachable state every record in the session store has at
\* least one style, so the generate handler's access to the first style of
\* the record it stored, and any swap-style index check against the stored
\* length, never indexes an empty list: no handler panics.
C17_StoredRecordsHaveAStyle ==
    /\ \A id \in DOMAIN SessionCache : Len(SessionCache[id].Styles) >= 1
    /\ \A r \in Requests :
          pc[r] \in {"generate_lock", "generate_insert", "generate_unlock",
                     "generate_image"} =>
              ~Index(locals[r].sessionData.Styles, 0).panic
    /\ \A r \in Requests :
          pc[r] = "swap_image" =>
              /\ Len(locals[r].sessionData.Styles) >= 1
              /\ ~Index(locals[r].sessionData.Styles, locals[r].StyleIndex).panic
    /\ \A r \in Requests : response[r] # Aborted

\* A generate request was refused for an empty style list while another, with
\* a list of one style, has read its first style and waits for the image.
C17_Witness ==
    \E r, q \in Requests :
        /\ Done(r) /\ IsGenerate(r)
        /\ Len(aiCalls[r]) = 1 /\ aiCalls[r][1].returned /\ ~aiCalls[r][1].err
        /\ aiCalls[r][1].styles = <<>>
        /\ pc[q] = "generate_image"
        /\ Len(locals[q].sessionData.Styles) = 1
        /\ locals[q].sessionID \in DOMAIN SessionCache

-----------------------------------------------------------------------------
(* Termination.  The handlers run as goroutines: the Go scheduler runs      *)
(* every runnable goroutine (weak fairness of each step that does not       *)
(* block), every call to the Gemini client is assumed to return (weak       *)
(* fairness of the return steps), and sync.Mutex hands the lock to a waiter *)
(* that has been starved (starvation mode), which is strong fairness of     *)
(* Lock.  Whether requests arrive, and which, is up to the clients.         *)

\* The requests considered for termination, one for each path through each
\* handler: generate requests refused at each check and one that passes;
\* swap-style requests without header, with an undecodable body, with index 0
\* and with an index past every list; lookups of identifiers of the process.
LiveRequests(r) ==
    /\ request'[r].sessionID # <<"bogus">>
    /\ request'[r].kind = "generate" => request'[r].image.ext # ""
    /\ request'[r].kind = "swap" =>
          request'[r].body \in {Malformed, Object(Absent, Absent, Absent, Num(0)),
                                Object(Absent, Absent, Absent, Num(MaxStyles))}

\* The steps of a handler that do not wait for the mutex.
HandlerStep(r) ==
    \/ GenerateStylesReturn(r)
    \/ GenerateInsert(r)
    \/ GenerateUnlock(r)
    \/ GenerateImageReturn(r)
    \/ SwapStyleRead(r)
    \/ SwapStyleUnlock(r)
    \/ SwapStyleImageReturn(r)
    \/ GetStylesRead(r)
    \/ GetStylesUnlock(r)

\* s.CacheMutex.Lock() in the three handlers.
LockStep(r) ==
    \/ GenerateLock(r)
    \/ SwapStyleLock(r)
    \/ GetStylesLock(r)

LiveNext ==
    \E r \in Requests :
        \/ GenerateStart(r) /\ LiveRequests(r)
        \/ SwapStyleStart(r) /\ LiveRequests(r)
        \/ GetStylesStart(r) /\ LiveRequests(r)
        \/ HandlerStep(r)
        \/ LockStep(r)
        \/ Return(r)

Fairness ==
    \A r \in Requests :
        /\ WF_vars(HandlerStep(r))
        /\ SF_vars(LockStep(r))

FairSpec == Init /\ [][LiveNext]_vars /\ Fairness

\* A handler that has ended has written a response and does not hold the lock.
C18_EndedWithResponse ==
    \A r \in Requests :
        Done(r) =>
            /\ response[r].status \in {200, 400, 404, 500}
            /\ CacheMutex # r
\* The response is written once, in the step that ends the handler.
C18_OneResponse ==
    \A r \in Requests :
        /\ response'[r] # response[r] =>
              \/ response[r] = NoResponse /\ pc[r] # "done" /\ pc'[r] = "done"
              \/ pc[r] = "done" /\ pc'[r] = "idle" /\ response'[r] = NoResponse
        /\ pc[r] # "done" /\ pc'[r] = "done" => response'[r] # NoResponse
\* Every started request ends, and every request waiting for the lock gets it.
C18_EveryRequestEnds ==
    \A r \in Requests :
        /\ (pc[r] # "idle") ~> Done(r)
        /\ (pc[r] \in {"generate_lock", "swap_lock", "styles_lock"}) ~> (CacheMutex = r)
\* C18: assuming every AI-client call eventually returns with a result or an
\* error, and under fair scheduling, every started generate, list-styles and
\* swap-style request eventually ends with exactly one response, for the
\* requests running concurrently; no handler path ends while holding the
\* cache lock, so no request waits forever for the lock.
C18_RequestsTerminate ==
    /\ []C18_EndedWithResponse
    /\ [][C18_OneResponse]_vars
    /\ C18_EveryRequestEnds

\* A swap-style request waits for the lock while a generate request holds it
\* for its insert.
C18_Witness ==
    \E r, q \in Requests :
        /\ pc[r] = "swap_lock"
        /\ pc[q] = "generate_insert"
        /\ CacheMutex = q

====
